---- MODULE Spec2Model ----
(***************************************************************************)
(* WithGames: the event / participant lifecycle of one recruitment event.  *)
(*                                                                         *)
(* The document store holds one event document and the participant         *)
(* documents of that event.  Every operation below is one handler of the   *)
(* bot, run to completion; SpecEdit and SpecRace let handlers interleave   *)
(* at the edit modal and between the store calls of join_event, and        *)
(* SpecFault and SpecReconcile let store calls raise (`faults`).  Time is  *)
(* a single clock (the process is assumed to run in UTC, so datetime.now() *)
(* and datetime.utcnow() agree and timestamps survive the store round      *)
(* trip unchanged).                                                        *)
(***************************************************************************)
EXTENDS Integers, Sequences, FiniteSets, TLC

\* ---- bounds of the model ------------------------------------------------
NumUsers == 4
MaxCap == 3
MaxTime == 4
\* the ledger-only specification: more users, no lifecycle
NumLedgerUsers == 5
MaxLedgerTime == 5
\* the specification with an open edit modal: _send_reminder runs counted
MaxReminders == 2
\* the specification with the sweep's timer kept running
NumSweepUsers == 2
\* the specification of racing join_event calls
NumCalls == 2
NumRaceUsers == 3
MaxRaceTime == 3
\* the specification of capacity edits over a wider range of capacities
MaxWideCap == 4
\* the users whose participant document may refuse updates
NumFaultyUsers == 1

\* ---- program constants --------------------------------------------------
MIN_PARTICIPANTS == 2
\* config.reminder_minutes, in clock units of the model
reminder_minutes == 1

Users == 1..NumUsers
LedgerUsers == 1..NumLedgerUsers
SweepUsers == 1..NumSweepUsers
RaceUsers == 1..NumRaceUsers
FaultyUsers == 1..NumFaultyUsers
\* the start times a creator or editor enters
StartTimes == {MaxTime - 2, MaxTime}

VARIABLES
    event,          \* the event document ("events" collection)
    participants,   \* the participant documents ("participants" collection)
    now,            \* the clock
    reminders,      \* number of _send_reminder runs for the current event
    ret,            \* the last completed operation and what it returned
    editing,        \* the event object of an edit_event whose modal is open
    faults,         \* the store calls and deliveries that raise in this run
    joining         \* the join_event calls in progress, store call by store call

vars == <<event, participants, now, reminders, ret, editing, faults, joining>>

\* ---- models/event.py ------------------------------------------------------
EventStatus == {"active", "full", "closed", "cancelled", "completed"}

\* The event slot when the store holds no event document.
NoEvent ==
    [exists |-> FALSE, status |-> "active", current_participants |-> 0,
     max_participants |-> MIN_PARTICIPANTS, start_time |-> 0,
     reminder_sent |-> FALSE]

\* No store call and no delivery raises.
NoFaults == [calls |-> {}, users |-> {}, dms |-> {}, channel |-> FALSE]

\* The slots of the join_event calls that run store call by store call,
\* and a slot with no call in it.
Calls == 1..NumCalls
IdleCall ==
    [pc |-> "idle", user_id |-> {}, max_participants |-> MIN_PARTICIPANTS,
     status |-> "joined", position |-> 0]
NoCalls == [c \in Calls |-> IdleCall]

\* is_full with a strict comparison.
is_full_strict(e) == e.current_participants > e.max_participants

is_full(e) == e.current_participants >= e.max_participants

\* update_status whose expiry rule also takes CLOSED events.
update_status_completes_closed(e, t) ==
    LET s1 == IF is_full(e) /\ e.status = "active" THEN "full"
              ELSE IF ~is_full(e) /\ e.status = "full" THEN "active"
              ELSE e.status
        s2 == IF e.start_time < t /\ s1 \in {"active", "full", "closed"}
              THEN "completed" ELSE s1
    IN  [e EXCEPT !.status = s2]

update_status(e, t) ==
    LET s1 == IF is_full(e) /\ e.status = "active" THEN "full"
              ELSE IF ~is_full(e) /\ e.status = "full" THEN "active"
              ELSE e.status
        s2 == IF e.start_time < t /\ s1 \in {"active", "full"}
              THEN "completed" ELSE s1
    IN  [e EXCEPT !.status = s2]

\* ---- models/participant.py ------------------------------------------------
ParticipantStatus == {"joined", "waitlist"}

Participant(id, user_id, status, position, joined_at) ==
    [id |-> id, user_id |-> user_id, status |-> status,
     position |-> position, joined_at |-> joined_at]

\* ---- services/firestore_service.py ------------------------------------------
\* create_document without doc_id: the store picks a fresh document id.
create_document(P) ==
    CHOOSE i \in 1..(Cardinality(P) + 1) :
        /\ \A r \in P : r.id # i
        /\ \A j \in 1..(i - 1) : \E r \in P : r.id = j

\* query_documents with filters and no order_by: the matching documents.
\* With limit=n the store keeps n of the matches before the caller sees
\* them; which ones is the store's choice (document-id order), so every
\* choice is possible.
query_documents(matches, limit) ==
    IF limit = 0 THEN {matches}
    ELSE {R \in SUBSET matches :
            Cardinality(R) = IF Cardinality(matches) < limit
                             THEN Cardinality(matches) ELSE limit}

\* The sort of the waitlist with reverse=True.
RECURSIVE SortByPositionReverse(_)
SortByPositionReverse(S) ==
    IF S = {} THEN {<<>>}
    ELSE UNION {{<<r>> \o t : t \in SortByPositionReverse(S \ {r})} :
                r \in {x \in S : \A y \in S : x.position >= y.position}}

\* list.sort(key=position) of a fetched result: the fetch order is the
\* store's, the sort is stable, so records with equal keys may come out in
\* either order.
RECURSIVE SortByPosition(_)
SortByPosition(S) ==
    IF S = {} THEN {<<>>}
    ELSE UNION {{<<r>> \o t : t \in SortByPosition(S \ {r})} :
                r \in {x \in S : \A y \in S : x.position <= y.position}}

RECURSIVE SortByJoinedAt(_)
SortByJoinedAt(S) ==
    IF S = {} THEN {<<>>}
    ELSE UNION {{<<r>> \o t : t \in SortByJoinedAt(S \ {r})} :
                r \in {x \in S : \A y \in S : x.joined_at <= y.joined_at}}

Range(s) == {s[i] : i \in DOMAIN s}

\* ---- services/event_service.py ----------------------------------------------
\* get_event: the stored document, or None when it is missing or the read
\* raises.
get_event(stored) ==
    IF "get_event" \in faults.calls THEN NoEvent ELSE stored

\* update_event: a whole-document write; it fails (and is swallowed) when
\* the document does not exist or the store call raises.
update_event(stored, e) ==
    IF stored.exists /\ "update_event" \notin faults.calls THEN e ELSE stored

\* increment_participant_count without the call of update_status.
increment_participant_count_no_status(e, t) ==
    IF ~e.exists THEN e
    ELSE update_event(e, [e EXCEPT !.current_participants = @ + 1])

increment_participant_count(e, t) ==
    IF ~get_event(e).exists THEN e
    ELSE update_event(e,
            update_status([e EXCEPT !.current_participants = @ + 1], t))

\* decrement_participant_count that reads the event and writes nothing.
decrement_participant_count_lost(e, t) == e

decrement_participant_count(e, t) ==
    IF ~get_event(e).exists THEN e
    ELSE update_event(e,
            update_status(
                [e EXCEPT !.current_participants =
                    IF @ - 1 < 0 THEN 0 ELSE @ - 1], t))

\* can_user_join without the test for CLOSED.
can_user_join_closed_open(e) ==
    /\ e.exists
    /\ e.status \notin {"cancelled", "completed"}

can_user_join(e) ==
    /\ get_event(e).exists
    /\ e.status \notin {"closed", "cancelled", "completed"}

\* ---- services/participant_service.py ------------------------------------------
JoinedOf(P) == {r \in P : r.status = "joined"}
WaitlistOf(P) == {r \in P : r.status = "waitlist"}

\* get_participants: the JOINED records sorted by joined_at, or the empty
\* list when the query raises.
get_participants(P) ==
    IF "get_participants" \in faults.calls THEN {<<>>}
    ELSE UNION {SortByJoinedAt(R) : R \in query_documents(JoinedOf(P), 0)}

\* get_waitlist: the WAITLIST records (at most `limit` of them when limit
\* is not 0) sorted by position, or the empty list when the query raises.
get_waitlist(P, limit) ==
    IF "get_waitlist" \in faults.calls THEN {<<>>}
    ELSE UNION {SortByPosition(R) :
                    R \in query_documents(WaitlistOf(P), limit)}

\* get_participant_by_user: the set holding the record found, or nothing
\* (also when the query raises).
get_participant_by_user(P, user_id) ==
    IF "get_participant_by_user" \in faults.calls THEN {{}}
    ELSE query_documents({r \in P : r.user_id = user_id}, 1)

\* is_user_participating that looks at the JOINED records only.
is_user_participating_joined_only(P, user_id) ==
    \E r \in JoinedOf(P) : r.user_id = user_id

is_user_participating(P, user_id) ==
    \E R \in get_participant_by_user(P, user_id) : R # {}

\* join_event's seat test with the comparison off by one.
has_room_inclusive(current_count, e) == current_count <= e.max_participants

\* join_event's seat test on the number of JOINED records it read.
has_room(current_count, e) == current_count < e.max_participants

\* _update_waitlist_positions that reads the waitlist and writes nothing.
_update_waitlist_positions_skipped(P) == {P}

\* The entries of the sorted waitlist wl that _update_waitlist_positions
\* reaches: its loop ends at the first record it has to rewrite whose
\* write raises.
Reached(wl) ==
    {i \in DOMAIN wl :
        \A j \in 1..i : wl[j].position = j \/ wl[j].user_id \notin faults.users}

\* The loop of _update_waitlist_positions calling update_document for every
\* entry.
UpdateWrites_all(wl) == DOMAIN wl

\* The entries of the sorted waitlist wl that the loop of
\* _update_waitlist_positions calls update_document for.
UpdateWrites(wl) == {i \in Reached(wl) : wl[i].position # i}

\* _update_waitlist_positions once it has read the waitlist wl: the store
\* content afterwards and the ids of the documents it wrote.
Resequenced(P, wl) ==
    [p |-> (P \ Range(wl)) \cup
           {[wl[i] EXCEPT !.position = IF i \in UpdateWrites(wl) THEN i ELSE @] :
               i \in DOMAIN wl},
     written |-> {wl[i].id : i \in UpdateWrites(wl)}]

\* _update_waitlist_positions: every possible store content afterwards.
_update_waitlist_positions(P) ==
    {Resequenced(P, wl).p : wl \in get_waitlist(P, 0)}

\* _promote_from_waitlist that promotes nobody.
_promote_from_waitlist_nobody(P, e, t) == {[p |-> P, e |-> e, promoted |-> {}]}

\* _promote_from_waitlist: every possible outcome [p, e, promoted].
_promote_from_waitlist(P, e, t) ==
    UNION {
        IF wl = <<>> \/ (wl # <<>> /\ wl[1].user_id \in faults.users)
        THEN {[p |-> P, e |-> e, promoted |-> {}]}
        ELSE LET first_in_line == wl[1]
                 P1 == (P \ {first_in_line}) \cup
                       {[first_in_line EXCEPT !.status = "joined",
                                              !.position = 0]}
                 e1 == increment_participant_count(e, t)
             IN  {[p |-> P2, e |-> e1, promoted |-> {first_in_line.user_id}] :
                    P2 \in _update_waitlist_positions(P1)}
        : wl \in get_waitlist(P, 1)}

\* promote_from_waitlist without the test of the record's status.
promote_from_waitlist_any_status(P, e, user_id, t) ==
    UNION {
        IF R = {} \/ user_id \in faults.users
        THEN {[p |-> P, e |-> e, ok |-> FALSE]}
        ELSE LET participant == CHOOSE r \in R : TRUE
                 P1 == (P \ {participant}) \cup
                       {[participant EXCEPT !.status = "joined",
                                            !.position = 0]}
                 e1 == increment_participant_count(e, t)
             IN  {[p |-> P2, e |-> e1, ok |-> TRUE] :
                    P2 \in _update_waitlist_positions(P1)}
        : R \in get_participant_by_user(P, user_id)}

\* promote_from_waitlist(event_id, user_id): every possible outcome
\* [p, e, ok].
promote_from_waitlist(P, e, user_id, t) ==
    UNION {
        IF R = {} \/ (\E r \in R : r.status # "waitlist")
           \/ user_id \in faults.users
        THEN {[p |-> P, e |-> e, ok |-> FALSE]}
        ELSE LET participant == CHOOSE r \in R : TRUE
                 P1 == (P \ {participant}) \cup
                       {[participant EXCEPT !.status = "joined",
                                            !.position = 0]}
                 e1 == increment_participant_count(e, t)
             IN  {[p |-> P2, e |-> e1, ok |-> TRUE] :
                    P2 \in _update_waitlist_positions(P1)}
        : R \in get_participant_by_user(P, user_id)}

\* demote_to_waitlist that puts the user at the head of the waitlist.
demote_to_waitlist_front(P, e, user_id, t) ==
    UNION {
        IF R = {} \/ (\E r \in R : r.status # "joined")
           \/ user_id \in faults.users
        THEN {[p |-> P, e |-> e, ok |-> FALSE]}
        ELSE LET participant == CHOOSE r \in R : TRUE
             IN  {[p |-> (P \ {participant}) \cup
                         {[participant EXCEPT !.status = "waitlist",
                                              !.position = 1]},
                   e |-> decrement_participant_count(e, t),
                   ok |-> TRUE]}
        : R \in get_participant_by_user(P, user_id)}

\* demote_to_waitlist that refuses every user.
demote_to_waitlist_refuses(P, e, user_id, t) ==
    {[p |-> P, e |-> e, ok |-> FALSE]}

\* demote_to_waitlist(event_id, user_id): every possible outcome [p, e, ok].
demote_to_waitlist(P, e, user_id, t) ==
    UNION {
        IF R = {} \/ (\E r \in R : r.status # "joined")
           \/ user_id \in faults.users
        THEN {[p |-> P, e |-> e, ok |-> FALSE]}
        ELSE LET participant == CHOOSE r \in R : TRUE
             IN  {[p |-> (P \ {participant}) \cup
                         {[participant EXCEPT !.status = "waitlist",
                                              !.position = Len(wl) + 1]},
                   e |-> decrement_participant_count(e, t),
                   ok |-> TRUE] : wl \in get_waitlist(P, 0)}
        : R \in get_participant_by_user(P, user_id)}

\* ---- cogs/event_manager.py --------------------------------------------------
\* The promotion loop left at the first promote_from_waitlist that fails.
RECURSIVE PromoteEach_stops(_, _, _)
PromoteEach_stops(S, us, t) ==
    IF us = <<>> THEN S
    ELSE UNION {
            UNION {IF o.ok
                   THEN PromoteEach_stops({[p |-> o.p, e |-> o.e]},
                                          Tail(us), t)
                   ELSE {[p |-> o.p, e |-> o.e]}
                   : o \in promote_from_waitlist(s.p, s.e, Head(us), t)}
            : s \in S}

\* The promotion loop of _handle_capacity_change over the user ids `us`,
\* from each of the store contents S = {[p, e], ...}.
RECURSIVE PromoteEach(_, _, _)
PromoteEach(S, us, t) ==
    IF us = <<>> THEN S
    ELSE PromoteEach(
            {[p |-> o.p, e |-> o.e] :
                o \in UNION {promote_from_waitlist(s.p, s.e, Head(us), t) :
                             s \in S}},
            Tail(us), t)

\* The demotion loop of _handle_capacity_change.
RECURSIVE DemoteEach(_, _, _)
DemoteEach(S, us, t) ==
    IF us = <<>> THEN S
    ELSE DemoteEach(
            {[p |-> o.p, e |-> o.e] :
                o \in UNION {demote_to_waitlist(s.p, s.e, Head(us), t) :
                             s \in S}},
            Tail(us), t)

Reverse(s) == [i \in 1..Len(s) |-> s[Len(s) + 1 - i]]

\* The eviction order without reverse=True: earliest joiners first.
SortedByJoinedAtForward(ps) == SortByJoinedAt(Range(ps))

\* sorted(participants, key=joined_at, reverse=True): stable, so records
\* with equal joined_at keep the order they have in `ps`.
SortedByJoinedAtReverse(ps) ==
    {Reverse(q) : q \in {x \in SortByJoinedAt(Range(ps)) :
        \A i, j \in 1..Len(x) :
            (i < j /\ x[i].joined_at = x[j].joined_at) =>
                \E a, b \in 1..Len(ps) : a > b /\ ps[a] = x[i] /\ ps[b] = x[j]}}

\* The user ids of the last n records of s instead of the first n.
UserIdsFromBack(s, n) == [i \in 1..n |-> s[Len(s) + 1 - i].user_id]

\* [s[i].user_id for i in range(n)]: whom the loops of
\* _handle_capacity_change call promote/demote for.
UserIds(s, n) == [i \in 1..n |-> s[i].user_id]

\* _handle_capacity_change(event, old_max_participants): `obj` is the
\* caller's event object carrying the new capacity, P and e the store.
\* Every possible outcome [p, e, obj].
_handle_capacity_change(obj, old_max_participants, P, e, t) ==
    LET new_max == obj.max_participants
        after ==
            UNION {UNION {
                LET current_count == Len(ps)
                    available_spots == new_max - current_count
                    to_promote == IF available_spots < Len(wl)
                                  THEN available_spots ELSE Len(wl)
                    excess_count == current_count - new_max
                IN  IF new_max > old_max_participants
                    THEN IF available_spots > 0 /\ wl # <<>>
                         THEN PromoteEach({[p |-> P, e |-> e]},
                                          UserIds(wl, to_promote), t)
                         ELSE {[p |-> P, e |-> e]}
                    ELSE IF new_max < old_max_participants
                            /\ current_count > new_max
                    THEN UNION {DemoteEach({[p |-> P, e |-> e]},
                                           UserIds(srt, excess_count), t) :
                                srt \in SortedByJoinedAtReverse(ps)}
                    ELSE {[p |-> P, e |-> e]}
                : wl \in get_waitlist(P, 0)} : ps \in get_participants(P)}
    IN  UNION {{[p |-> s.p, e |-> s.e,
                 obj |-> [obj EXCEPT !.current_participants = Len(updated)]] :
                    updated \in get_participants(s.p)} : s \in after}

\* ---- the operations -----------------------------------------------------------
\* What an operation leaves behind for its caller: its name, the user it
\* was called for (a set: empty when it is called for nobody), whether it
\* reported success, and the users it promoted and demoted.
Ret(op, user, ok, promoted, demoted) ==
    [op |-> op, user |-> user, ok |-> ok, promoted |-> promoted,
     demoted |-> demoted]

\* The users whose record has status `from` in P and status `to` in Q.
Moved(P, Q, from, to) ==
    {r.user_id : r \in {x \in P : x.status = from /\
                            \E q \in Q : q.id = x.id /\ q.status = to}}

Init ==
    /\ event = NoEvent
    /\ participants = {}
    /\ now = 0
    /\ reminders = 0
    /\ ret = Ret("init", {}, TRUE, {}, {})
    /\ editing = NoEvent
    /\ faults = NoFaults
    /\ joining = NoCalls

\* EventService.create_event, reached from the creation modal, whose input
\* passed Validators.validate_event_data.
create_event ==
    /\ ~event.exists
    /\ \E st \in {x \in StartTimes : x >= now},
          mx \in MIN_PARTICIPANTS..MaxCap :
         event' = [exists |-> TRUE, status |-> "active",
                   current_participants |-> 0, max_participants |-> mx,
                   start_time |-> st, reminder_sent |-> FALSE]
    /\ reminders' = 0
    /\ ret' = Ret("create_event", {}, TRUE, {}, {})
    /\ UNCHANGED <<participants, now, editing, faults, joining>>

\* ParticipantService.join_event.  The call takes time: the clock has moved
\* on when it returns, so two joins never carry the same joined_at.  A
\* create_document that raises ends the call in its except branch, after
\* reads only.
join_event(user_id) ==
    /\ now' = now + 1
    /\ UNCHANGED <<reminders, editing, faults, joining>>
    /\ IF ~get_event(event).exists \/ ~can_user_join(event)
          \/ is_user_participating(participants, user_id)
          \/ "create_document" \in faults.calls
       THEN /\ ret' = Ret("join_event", {user_id}, FALSE, {}, {})
            /\ UNCHANGED <<event, participants>>
       ELSE \E ps \in get_participants(participants) :
              LET current_count == Len(ps)
                  direct == has_room(current_count, event)
              IN  \E wl \in (IF direct THEN {<<>>}
                             ELSE get_waitlist(participants, 0)) :
                    LET status == IF direct THEN "joined" ELSE "waitlist"
                        position == IF direct THEN 0 ELSE Len(wl) + 1
                        participant ==
                            Participant(create_document(participants),
                                        user_id, status, position, now)
                    IN  /\ participants' = participants \cup {participant}
                        /\ event' = IF direct
                                    THEN increment_participant_count(event, now)
                                    ELSE event
                        /\ ret' = Ret("join_event", {user_id}, TRUE, {}, {})

\* leave_event that treats every leaver like a JOINED one.
leave_event_promotes_always(user_id) ==
    /\ UNCHANGED <<now, reminders, editing, faults, joining>>
    /\ \E R \in get_participant_by_user(participants, user_id) :
        IF R = {}
        THEN /\ ret' = Ret("leave_event", {user_id}, FALSE, {}, {})
             /\ UNCHANGED <<event, participants>>
        ELSE LET participant == CHOOSE r \in R : TRUE
                 P1 == participants \ {participant}
             IN  \E o \in _promote_from_waitlist(
                             P1, decrement_participant_count(event, now),
                             now) :
                    /\ participants' = o.p
                    /\ event' = o.e
                    /\ ret' = Ret("leave_event", {user_id}, TRUE, o.promoted,
                                  {})

\* ParticipantService.leave_event.
leave_event(user_id) ==
    /\ UNCHANGED <<now, reminders, editing, faults, joining>>
    /\ \E R \in get_participant_by_user(participants, user_id) :
        IF R = {}
        THEN /\ ret' = Ret("leave_event", {user_id}, FALSE, {}, {})
             /\ UNCHANGED <<event, participants>>
        ELSE LET participant == CHOOSE r \in R : TRUE
                 P1 == participants \ {participant}
             IN  IF participant.status = "joined"
                 THEN \E o \in _promote_from_waitlist(
                                 P1, decrement_participant_count(event, now),
                                 now) :
                        /\ participants' = o.p
                        /\ event' = o.e
                        /\ ret' = Ret("leave_event", {user_id}, TRUE, o.promoted,
                                      {})
                 ELSE \E P2 \in _update_waitlist_positions(P1) :
                        /\ participants' = P2
                        /\ event' = event
                        /\ ret' = Ret("leave_event", {user_id}, TRUE, {}, {})

\* edit_event_submit that reopens the event before it recomputes the status.
edit_event_submit_reopens(read, start_time, max_participants) ==
    LET old_max_participants == read.max_participants
        obj == [read EXCEPT !.start_time = start_time,
                            !.max_participants = max_participants,
                            !.status = "active"]
    IN  \E o \in (IF old_max_participants # max_participants
                  THEN _handle_capacity_change(
                          obj, old_max_participants, participants,
                          event, now)
                  ELSE {[p |-> participants, e |-> event,
                         obj |-> obj]}) :
            /\ participants' = o.p
            /\ event' = update_event(o.e, update_status(o.obj, now))
            /\ ret' = Ret("edit_event", {}, TRUE,
                           Moved(participants, o.p,
                                 "waitlist", "joined"),
                           Moved(participants, o.p,
                                 "joined", "waitlist"))

\* EventManager.edit_event from the modal's submission on: `read` is the
\* event object the handler fetched before it showed the modal, the input
\* passed Validators.validate_event_data (start_time not in the past,
\* capacity within MIN_PARTICIPANTS..MAX_PARTICIPANTS).
edit_event_submit(read, start_time, max_participants) ==
    LET old_max_participants == read.max_participants
        obj == [read EXCEPT !.start_time = start_time,
                            !.max_participants = max_participants]
    IN  \E o \in (IF old_max_participants # max_participants
                  THEN _handle_capacity_change(
                          obj, old_max_participants, participants,
                          event, now)
                  ELSE {[p |-> participants, e |-> event,
                         obj |-> obj]}) :
            /\ participants' = o.p
            /\ event' = update_event(o.e, update_status(o.obj, now))
            /\ ret' = Ret("edit_event", {}, TRUE,
                           Moved(participants, o.p,
                                 "waitlist", "joined"),
                           Moved(participants, o.p,
                                 "joined", "waitlist"))

\* EventManager.edit_event, the modal answered before anything else runs.
edit_event(start_time, max_participants) ==
    /\ UNCHANGED <<now, reminders, editing, faults, joining>>
    /\ IF ~get_event(event).exists
       THEN /\ ret' = Ret("edit_event", {}, FALSE, {}, {})
            /\ UNCHANGED <<event, participants>>
       ELSE edit_event_submit(event, start_time, max_participants)

\* close_event without the tests of the current status.
close_event_any_status ==
    /\ UNCHANGED <<participants, now, reminders, editing, faults, joining>>
    /\ IF ~event.exists
       THEN /\ ret' = Ret("close_event", {}, FALSE, {}, {})
            /\ UNCHANGED event
       ELSE /\ event' = update_event(event, [event EXCEPT !.status = "closed"])
            /\ ret' = Ret("close_event", {}, TRUE, {}, {})

\* EventManager.close_event.
close_event ==
    /\ UNCHANGED <<participants, now, reminders, editing, faults, joining>>
    /\ IF ~get_event(event).exists \/ event.status \in {"closed", "cancelled", "completed"}
       THEN /\ ret' = Ret("close_event", {}, FALSE, {}, {})
            /\ UNCHANGED event
       ELSE /\ event' = update_event(event, [event EXCEPT !.status = "closed"])
            /\ ret' = Ret("close_event", {}, TRUE, {}, {})

\* delete_all_participants: the records left behind; all of them when the
\* query raises (the method then returns False).
delete_all_participants(P) ==
    IF "delete_all_participants" \in faults.calls THEN P ELSE {}

\* EventManager.delete_event: delete_all_participants, its result not
\* looked at, then the event.
delete_event ==
    /\ UNCHANGED <<now, reminders, editing, faults, joining>>
    /\ IF ~get_event(event).exists
       THEN /\ ret' = Ret("delete_event", {}, FALSE, {}, {})
            /\ UNCHANGED <<event, participants>>
       ELSE /\ participants' = delete_all_participants(participants)
            /\ event' = NoEvent
            /\ ret' = Ret("delete_event", {}, TRUE, {}, {})

\* The external cancellation of an event: no handler of the bot sets
\* CANCELLED, the status is written to the event document from outside.
cancel_event ==
    /\ event.exists
    /\ event.status \in {"active", "full", "closed"}
    /\ event' = [event EXCEPT !.status = "cancelled"]
    /\ ret' = Ret("cancel_event", {}, TRUE, {}, {})
    /\ UNCHANGED <<participants, now, reminders, editing, faults, joining>>

\* ---- utils/datetime_utils.py --------------------------------------------------
get_reminder_time(event_time, minutes_before) == event_time - minutes_before

\* should_send_reminder without the test against the start of the event.
should_send_reminder_no_end(event_time, reminder_sent, minutes_before, t) ==
    IF reminder_sent THEN FALSE
    ELSE t >= get_reminder_time(event_time, minutes_before)

should_send_reminder(event_time, reminder_sent, minutes_before, t) ==
    IF reminder_sent THEN FALSE
    ELSE t >= get_reminder_time(event_time, minutes_before) /\ t < event_time

\* ---- cogs/notification_manager.py ---------------------------------------------
\* _send_reminder(event): the event document written at its end.
_send_reminder(e) == [e EXCEPT !.reminder_sent = TRUE]

\* The DM loop of _send_reminder left at the first delivery that raises.
RECURSIVE SendEach_aborts(_, _)
SendEach_aborts(ps, acc) ==
    IF ps = <<>> THEN acc
    ELSE LET user_id == Head(ps).user_id
         IN  IF user_id \in faults.dms
             THEN [acc EXCEPT !.attempted = @ \cup {user_id}]
             ELSE SendEach_aborts(Tail(ps),
                     [attempted |-> acc.attempted \cup {user_id},
                      sent |-> acc.sent \cup {user_id}])

\* The DM loop of _send_reminder over the JOINED records `ps`: the users
\* a delivery was attempted to and the users it reached.  A delivery
\* that raises is caught inside the loop body.
RECURSIVE SendEach(_, _)
SendEach(ps, acc) ==
    IF ps = <<>> THEN acc
    ELSE LET user_id == Head(ps).user_id
         IN  SendEach(Tail(ps),
                [attempted |-> acc.attempted \cup {user_id},
                 sent |-> IF user_id \in faults.dms THEN acc.sent
                          ELSE acc.sent \cup {user_id}])

\* What a run of _send_reminder over the JOINED records `ps` delivers: the
\* DMs, and whether the channel message was attempted and went out.  With
\* no JOINED record nothing is sent.
Deliveries(ps) ==
    IF ps = <<>>
    THEN [attempted |-> {}, sent |-> {}, channel_attempted |-> FALSE,
          channel_sent |-> FALSE]
    ELSE SendEach(ps, [attempted |-> {}, sent |-> {}]) @@
         [channel_attempted |-> TRUE, channel_sent |-> ~faults.channel]

\* The tests of the loop body with the reminder_sent flag not consulted.
reminder_due_flag_ignored(e, t) ==
    /\ e.status \in {"active", "full", "closed"}
    /\ should_send_reminder(e.start_time, FALSE, reminder_minutes, t)

\* The tests of the check_reminders loop body that lead to _send_reminder.
reminder_due(e, t) ==
    /\ ~e.reminder_sent
    /\ e.status \in {"active", "full", "closed"}
    /\ should_send_reminder(e.start_time, e.reminder_sent,
                            reminder_minutes, t)

\* One run of the check_reminders loop (the loop body for the event).
\* ret.ok tells whether _send_reminder ran; ret then also carries what it
\* delivered.
check_reminders ==
    /\ UNCHANGED <<participants, now, editing, faults, joining>>
    /\ IF event.exists /\ reminder_due(event, now)
       THEN /\ reminders' = reminders + 1
            /\ event' = update_event(event, _send_reminder(event))
            /\ \E ps \in get_participants(participants) :
                 ret' = Ret("check_reminders", {}, TRUE, {}, {}) @@
                        Deliveries(ps)
       ELSE /\ ret' = Ret("check_reminders", {}, FALSE, {}, {})
            /\ UNCHANGED <<event, reminders>>

\* check_completed_events that also skips CLOSED events.
check_completed_events_skips_closed ==
    /\ UNCHANGED <<participants, now, reminders, editing, faults, joining>>
    /\ IF /\ event.exists
          /\ event.status \notin {"completed", "cancelled", "closed"}
          /\ event.start_time < now
       THEN /\ event' = update_event(event,
                                     [event EXCEPT !.status = "completed"])
            /\ ret' = Ret("check_completed_events", {}, TRUE, {}, {})
       ELSE /\ ret' = Ret("check_completed_events", {}, FALSE, {}, {})
            /\ UNCHANGED event

\* One run of the check_completed_events loop.  ret.ok tells whether the
\* event was written.
check_completed_events ==
    /\ UNCHANGED <<participants, now, reminders, editing, faults, joining>>
    /\ IF /\ event.exists
          /\ event.status \notin {"completed", "cancelled"}
          /\ event.start_time < now
       THEN /\ event' = update_event(event,
                                     [event EXCEPT !.status = "completed"])
            /\ ret' = Ret("check_completed_events", {}, TRUE, {}, {})
       ELSE /\ ret' = Ret("check_completed_events", {}, FALSE, {}, {})
            /\ UNCHANGED event

Tick ==
    /\ now < MaxTime
    /\ now' = now + 1
    /\ ret' = Ret("tick", {}, TRUE, {}, {})
    /\ UNCHANGED <<event, participants, reminders, editing, faults, joining>>

Next ==
    \/ create_event
    \/ \E u \in Users : now < MaxTime /\ join_event(u)
    \/ \E u \in Users : leave_event(u)
    \/ \E st \in {x \in StartTimes : x >= now},
          mx \in MIN_PARTICIPANTS..MaxCap : edit_event(st, mx)
    \/ close_event
    \/ delete_event
    \/ cancel_event
    \/ check_reminders
    \/ check_completed_events
    \/ Tick

Spec == Init /\ [][Next]_vars

\* The same system with the completion sweep's timer kept running: the
\* tasks.loop fires again and again, so a sweep that has work to do is not
\* put off for ever.
NextSweep ==
    \/ create_event
    \/ \E u \in SweepUsers : now < MaxTime /\ join_event(u)
    \/ \E u \in SweepUsers : leave_event(u)
    \/ \E st \in {x \in StartTimes : x >= now},
          mx \in MIN_PARTICIPANTS..MaxCap : edit_event(st, mx)
    \/ close_event
    \/ delete_event
    \/ cancel_event
    \/ check_reminders
    \/ check_completed_events
    \/ Tick

SpecSweep == Init /\ [][NextSweep]_vars /\ WF_vars(check_completed_events)

\* ---- the ledger alone: joins, leaves and capacity edits on an event whose
\* start lies ahead of every step ---------------------------------------------
InitLedger ==
    /\ \E mx \in MIN_PARTICIPANTS..MaxCap :
         event = [exists |-> TRUE, status |-> "active",
                  current_participants |-> 0, max_participants |-> mx,
                  start_time |-> MaxLedgerTime, reminder_sent |-> FALSE]
    /\ participants = {}
    /\ now = 0
    /\ reminders = 0
    /\ ret = Ret("create_event", {}, TRUE, {}, {})
    /\ editing = NoEvent
    /\ faults = NoFaults
    /\ joining = NoCalls

NextLedger ==
    \/ \E u \in LedgerUsers : now < MaxLedgerTime /\ join_event(u)
    \/ \E u \in LedgerUsers : leave_event(u)
    \/ \E mx \in MIN_PARTICIPANTS..MaxCap : edit_event(event.start_time, mx)

SpecLedger == InitLedger /\ [][NextLedger]_vars

\* ---- Event.update_status alone, on every event and clock ---------------------
InitStatus ==
    /\ event \in [exists : {TRUE}, status : EventStatus,
                  current_participants : 0..(MaxCap + 1),
                  max_participants : MIN_PARTICIPANTS..MaxCap,
                  start_time : 0..MaxTime, reminder_sent : BOOLEAN]
    /\ now \in 0..MaxTime
    /\ participants = {}
    /\ reminders = 0
    /\ ret = [op |-> "init", before |-> NoEvent]
    /\ editing = NoEvent
    /\ faults = NoFaults
    /\ joining = NoCalls

\* event.update_status() at clock `now`; ret.before keeps the event it was
\* called on.
apply_update_status ==
    /\ ret.op = "init"
    /\ event' = update_status(event, now)
    /\ ret' = [op |-> "update_status", before |-> event]
    /\ UNCHANGED <<participants, now, reminders, editing, faults, joining>>

SpecStatus == InitStatus /\ [][apply_update_status]_vars

\* ---- edit_event with its modal open while other handlers run -----------------
\* EventManager.edit_event up to the modal: the handler fetches the event
\* and waits for the user's input.  One modal is open at a time.
edit_event_read ==
    /\ ~editing.exists
    /\ UNCHANGED <<event, participants, now, reminders, faults, joining>>
    /\ IF ~get_event(event).exists
       THEN /\ ret' = Ret("edit_event_read", {}, FALSE, {}, {})
            /\ UNCHANGED editing
       ELSE /\ editing' = event
            /\ ret' = Ret("edit_event_read", {}, TRUE, {}, {})

\* EventManager.edit_event after the modal: the handler goes on with the
\* event object it fetched before.
edit_event_write(start_time, max_participants) ==
    /\ editing.exists
    /\ edit_event_submit(editing, start_time, max_participants)
    /\ editing' = NoEvent
    /\ UNCHANGED <<now, reminders, faults, joining>>

InitEdit ==
    /\ \E st \in StartTimes, mx \in MIN_PARTICIPANTS..MaxCap :
         event = [exists |-> TRUE, status |-> "active",
                  current_participants |-> 0, max_participants |-> mx,
                  start_time |-> st, reminder_sent |-> FALSE]
    /\ participants = {}
    /\ now = 0
    /\ reminders = 0
    /\ ret = Ret("create_event", {}, TRUE, {}, {})
    /\ editing = NoEvent
    /\ faults = NoFaults
    /\ joining = NoCalls

NextEdit ==
    \/ \E u \in Users : now < MaxTime /\ join_event(u)
    \/ edit_event_read
    \/ \E st \in {x \in StartTimes : x >= now},
          mx \in MIN_PARTICIPANTS..MaxCap : edit_event_write(st, mx)
    \/ reminders < MaxReminders /\ check_reminders
    \/ Tick

SpecEdit == InitEdit /\ [][NextEdit]_vars

\* ---- the handlers on a store one of whose calls raises ------------------------
\* The service calls whose failure the run may suffer: the store call
\* inside raises and the service method takes its except branch.
StoreCalls ==
    {"get_event", "get_participant_by_user", "get_participants",
     "get_waitlist", "create_document", "update_event",
     "delete_all_participants"}

InitFault ==
    /\ \E mx \in MIN_PARTICIPANTS..MaxCap :
         event = [exists |-> TRUE, status |-> "active",
                  current_participants |-> 0, max_participants |-> mx,
                  start_time |-> MaxTime, reminder_sent |-> FALSE]
    /\ participants = {}
    /\ now = 0
    /\ reminders = 0
    /\ ret = Ret("create_event", {}, TRUE, {}, {})
    /\ editing = NoEvent
    /\ faults \in {[NoFaults EXCEPT !.calls = C] :
                        C \in {{}} \cup {{c} : c \in StoreCalls}}
    /\ joining = NoCalls

NextFault ==
    \/ \E u \in RaceUsers : now < MaxTime /\ join_event(u)
    \/ \E u \in RaceUsers : leave_event(u)
    \/ delete_event

SpecFault == InitFault /\ [][NextFault]_vars

\* ---- join_event calls that run store call by store call -----------------------
\* A call of join_event in slot c stands before the store call joining[c].pc
\* names; between two of its store calls other handlers run.  Its locals
\* are the capacity of the event object it fetched and the status and
\* position it decided on.
Goto(c, pc) == [joining EXCEPT ![c].pc = pc]

Return(c) == [joining EXCEPT ![c] = IdleCall]

\* join_event is called: event = get_event(event_id).
join_get_event(c, user_id) ==
    /\ joining[c].pc = "idle"
    /\ UNCHANGED <<event, participants, now, reminders, editing, faults>>
    /\ IF ~get_event(event).exists
       THEN /\ joining' = joining
            /\ ret' = Ret("join_event", {user_id}, FALSE, {}, {})
       ELSE /\ joining' =
                [joining EXCEPT ![c] =
                    [IdleCall EXCEPT
                        !.pc = "can_user_join",
                        !.user_id = {user_id},
                        !.max_participants = event.max_participants]]
            /\ ret' = Ret("join_event_call", {user_id}, TRUE, {}, {})

\* can_join, reason = can_user_join(event_id), which reads the event again.
join_can_user_join(c) ==
    /\ joining[c].pc = "can_user_join"
    /\ UNCHANGED <<event, participants, now, reminders, editing, faults>>
    /\ IF ~can_user_join(event)
       THEN /\ joining' = Return(c)
            /\ ret' = Ret("join_event", joining[c].user_id, FALSE, {}, {})
       ELSE /\ joining' = Goto(c, "is_user_participating")
            /\ ret' = Ret("join_event_call", joining[c].user_id, TRUE, {}, {})

\* existing = is_user_participating(event_id, user_id).
join_is_user_participating(c) ==
    /\ joining[c].pc = "is_user_participating"
    /\ UNCHANGED <<event, participants, now, reminders, editing, faults>>
    /\ IF \E u \in joining[c].user_id :
            is_user_participating(participants, u)
       THEN /\ joining' = Return(c)
            /\ ret' = Ret("join_event", joining[c].user_id, FALSE, {}, {})
       ELSE /\ joining' = Goto(c, "get_participants")
            /\ ret' = Ret("join_event_call", joining[c].user_id, TRUE, {}, {})

\* participants = get_participants(event_id) and the seat test on it.
join_get_participants(c) ==
    /\ joining[c].pc = "get_participants"
    /\ UNCHANGED <<event, participants, now, reminders, editing, faults>>
    /\ \E ps \in get_participants(participants) :
         joining' =
            [joining EXCEPT ![c] =
                IF has_room(Len(ps), joining[c])
                THEN [@ EXCEPT !.pc = "create_document",
                               !.status = "joined", !.position = 0]
                ELSE [@ EXCEPT !.pc = "get_waitlist"]]
    /\ ret' = Ret("join_event_call", joining[c].user_id, TRUE, {}, {})

\* waitlist = get_waitlist(event_id) of the branch without a free seat.
join_get_waitlist(c) ==
    /\ joining[c].pc = "get_waitlist"
    /\ UNCHANGED <<event, participants, now, reminders, editing, faults>>
    /\ \E wl \in get_waitlist(participants, 0) :
         joining' =
            [joining EXCEPT ![c] =
                [@ EXCEPT !.pc = "create_document",
                          !.status = "waitlist", !.position = Len(wl) + 1]]
    /\ ret' = Ret("join_event_call", joining[c].user_id, TRUE, {}, {})

\* The Participant object is built and create_document stores it; a
\* waitlisted join returns here.
join_create_document(c) ==
    /\ joining[c].pc = "create_document"
    /\ now' = now + 1
    /\ UNCHANGED <<event, reminders, editing, faults>>
    /\ IF "create_document" \in faults.calls
       THEN /\ participants' = participants
            /\ joining' = Return(c)
            /\ ret' = Ret("join_event", joining[c].user_id, FALSE, {}, {})
       ELSE /\ participants' = participants \cup
                {Participant(create_document(participants), u,
                             joining[c].status, joining[c].position, now) :
                    u \in joining[c].user_id}
            /\ IF joining[c].status = "joined"
               THEN /\ joining' = Goto(c, "increment_participant_count")
                    /\ ret' = Ret("join_event_call", joining[c].user_id,
                                  TRUE, {}, {})
               ELSE /\ joining' = Return(c)
                    /\ ret' = Ret("join_event", joining[c].user_id,
                                  TRUE, {}, {})

\* increment_participant_count(event_id) and the return of a direct join.
join_increment_participant_count(c) ==
    /\ joining[c].pc = "increment_participant_count"
    /\ event' = increment_participant_count(event, now)
    /\ joining' = Return(c)
    /\ ret' = Ret("join_event", joining[c].user_id, TRUE, {}, {})
    /\ UNCHANGED <<participants, now, reminders, editing, faults>>

InitRace ==
    /\ \E mx \in MIN_PARTICIPANTS..MaxCap :
         event = [exists |-> TRUE, status |-> "active",
                  current_participants |-> 0, max_participants |-> mx,
                  start_time |-> MaxTime, reminder_sent |-> FALSE]
    /\ participants = {}
    /\ now = 0
    /\ reminders = 0
    /\ ret = Ret("create_event", {}, TRUE, {}, {})
    /\ editing = NoEvent
    /\ faults = NoFaults
    /\ joining = NoCalls

NextRace ==
    \/ \E c \in Calls, u \in RaceUsers : join_get_event(c, u)
    \/ \E c \in Calls : join_can_user_join(c)
    \/ \E c \in Calls : join_is_user_participating(c)
    \/ \E c \in Calls : join_get_participants(c)
    \/ \E c \in Calls : join_get_waitlist(c)
    \/ \E c \in Calls : now < MaxRaceTime /\ join_create_document(c)
    \/ \E c \in Calls : join_increment_participant_count(c)
    \/ \E u \in RaceUsers : leave_event(u)

SpecRace == InitRace /\ [][NextRace]_vars

\* ---- capacity edits over MIN_PARTICIPANTS..MaxWideCap ------------------------
InitWide ==
    /\ \E mx \in MIN_PARTICIPANTS..MaxWideCap :
         event = [exists |-> TRUE, status |-> "active",
                  current_participants |-> 0, max_participants |-> mx,
                  start_time |-> MaxLedgerTime, reminder_sent |-> FALSE]
    /\ participants = {}
    /\ now = 0
    /\ reminders = 0
    /\ ret = Ret("create_event", {}, TRUE, {}, {})
    /\ editing = NoEvent
    /\ faults = NoFaults
    /\ joining = NoCalls

NextWide ==
    \/ \E u \in LedgerUsers : now < MaxLedgerTime /\ join_event(u)
    \/ \E u \in LedgerUsers : leave_event(u)
    \/ \E mx \in MIN_PARTICIPANTS..MaxWideCap :
          edit_event(event.start_time, mx)

SpecWide == InitWide /\ [][NextWide]_vars

\* ---- the same with the update of one user's participant document raising ----
InitReconcile ==
    /\ \E mx \in MIN_PARTICIPANTS..MaxWideCap :
         event = [exists |-> TRUE, status |-> "active",
                  current_participants |-> 0, max_participants |-> mx,
                  start_time |-> MaxLedgerTime, reminder_sent |-> FALSE]
    /\ participants = {}
    /\ now = 0
    /\ reminders = 0
    /\ ret = Ret("create_event", {}, TRUE, {}, {})
    /\ editing = NoEvent
    /\ faults \in {[NoFaults EXCEPT !.users = U] :
                    U \in {{}} \cup {{u} : u \in FaultyUsers}}
    /\ joining = NoCalls

NextReconcile ==
    \/ \E u \in Users : now < MaxTime /\ join_event(u)
    \/ \E u \in Users : leave_event(u)
    \/ \E mx \in MIN_PARTICIPANTS..MaxWideCap :
          edit_event(event.start_time, mx)

SpecReconcile == InitReconcile /\ [][NextReconcile]_vars

\* ---- reminders with deliveries that raise -----------------------------------
InitRemind ==
    /\ \E mx \in MIN_PARTICIPANTS..MaxCap :
         event = [exists |-> TRUE, status |-> "active",
                  current_participants |-> 0, max_participants |-> mx,
                  start_time |-> MaxTime, reminder_sent |-> FALSE]
    /\ participants = {}
    /\ now = 0
    /\ reminders = 0
    /\ ret = Ret("create_event", {}, TRUE, {}, {})
    /\ editing = NoEvent
    /\ faults \in {[NoFaults EXCEPT !.dms = D, !.channel = c] :
                    D \in SUBSET Users, c \in BOOLEAN}
    /\ joining = NoCalls

NextRemind ==
    \/ \E u \in Users : now < MaxTime /\ join_event(u)
    \/ \E u \in Users : leave_event(u)
    \/ check_reminders
    \/ Tick

SpecRemind == InitRemind /\ [][NextRemind]_vars

\* ---- promote_from_waitlist and demote_to_waitlist called for any user -------
\* ParticipantService.promote_from_waitlist called on its own.
call_promote_from_waitlist(user_id) ==
    /\ \E o \in promote_from_waitlist(participants, event, user_id, now) :
         /\ participants' = o.p
         /\ event' = o.e
         /\ ret' = Ret("promote_from_waitlist", {user_id}, o.ok,
                       Moved(participants, o.p, "waitlist", "joined"), {})
    /\ UNCHANGED <<now, reminders, editing, faults, joining>>

\* ParticipantService.demote_to_waitlist called on its own.
call_demote_to_waitlist(user_id) ==
    /\ \E o \in demote_to_waitlist(participants, event, user_id, now) :
         /\ participants' = o.p
         /\ event' = o.e
         /\ ret' = Ret("demote_to_waitlist", {user_id}, o.ok, {},
                       Moved(participants, o.p, "joined", "waitlist"))
    /\ UNCHANGED <<now, reminders, editing, faults, joining>>

NextMoves ==
    \/ \E u \in Users : now < MaxTime /\ join_event(u)
    \/ \E u \in Users : leave_event(u)
    \/ \E u \in Users : call_promote_from_waitlist(u)
    \/ \E u \in Users : call_demote_to_waitlist(u)

SpecMoves == InitRace /\ [][NextMoves]_vars

\* ---- _update_waitlist_positions alone, on every waitlist ----------------------
\* The participant documents of the users in U, each JOINED or waiting at
\* any position.
Records(U) ==
    {[id |-> u, user_id |-> u, status |-> "joined", position |-> 0,
      joined_at |-> u] : u \in U}
    \cup
    {[id |-> u, user_id |-> u, status |-> "waitlist", position |-> k,
      joined_at |-> u] : u \in U, k \in 1..NumUsers}

InitResequence ==
    /\ participants \in
         {P \in SUBSET Records(Users) :
             \A r, q \in P : r.user_id = q.user_id => r = q}
    /\ event = [exists |-> TRUE, status |-> "active",
                current_participants |-> 0, max_participants |-> MaxCap,
                start_time |-> MaxTime, reminder_sent |-> FALSE]
    /\ now = 0
    /\ reminders = 0
    /\ ret = [op |-> "init", written |-> {}]
    /\ editing = NoEvent
    /\ faults = NoFaults
    /\ joining = NoCalls

\* ParticipantService._update_waitlist_positions called once more;
\* ret.written keeps the ids of the documents it wrote.
apply_update_waitlist_positions ==
    /\ \E wl \in get_waitlist(participants, 0) :
         /\ participants' = Resequenced(participants, wl).p
         /\ ret' = [op |-> "_update_waitlist_positions",
                    written |-> Resequenced(participants, wl).written]
    /\ UNCHANGED <<event, now, reminders, editing, faults, joining>>

SpecResequence == InitResequence /\ [][apply_update_waitlist_positions]_vars

\* ---- edit_event with its modal open while the completion sweep runs ---------
NextStale ==
    \/ \E u \in SweepUsers : now < MaxTime /\ join_event(u)
    \/ edit_event_read
    \/ \E st \in {x \in StartTimes : x >= now},
          mx \in MIN_PARTICIPANTS..MaxCap : edit_event_write(st, mx)
    \/ check_completed_events
    \/ Tick

SpecStale == InitEdit /\ [][NextStale]_vars

\* ---- join_event calls that run store call by store call on a full event -----
\* The event with its MIN_PARTICIPANTS seats taken by the first users.
InitFullRace ==
    /\ event = [exists |-> TRUE, status |-> "full",
                current_participants |-> MIN_PARTICIPANTS,
                max_participants |-> MIN_PARTICIPANTS,
                start_time |-> MaxTime + 1,
                reminder_sent |-> FALSE]
    /\ participants =
         {Participant(u, u, "joined", 0, u - 1) : u \in 1..MIN_PARTICIPANTS}
    /\ now = MIN_PARTICIPANTS
    /\ reminders = 0
    /\ ret = Ret("join_event", {MIN_PARTICIPANTS}, TRUE, {}, {})
    /\ editing = NoEvent
    /\ faults = NoFaults
    /\ joining = NoCalls

\* Every call slot serves a user of its own, none of them seated.
NextFullRace ==
    \/ \E c \in Calls : join_get_event(c, MIN_PARTICIPANTS + c)
    \/ \E c \in Calls : join_can_user_join(c)
    \/ \E c \in Calls : join_is_user_participating(c)
    \/ \E c \in Calls : join_get_participants(c)
    \/ \E c \in Calls : join_get_waitlist(c)
    \/ \E c \in Calls : now < MaxTime /\ join_create_document(c)
    \/ \E c \in Calls : join_increment_participant_count(c)
    \/ \E u \in Users : leave_event(u)

SpecFullRace == InitFullRace /\ [][NextFullRace]_vars

\* ---- the claims ---------------------------------------------------------------
JoinedCount == Cardinality(JoinedOf(participants))
WaitlistCount == Cardinality(WaitlistOf(participants))
UsersWithRecord(P) == {r.user_id : r \in P}

\* C1: in every state reached by completed operations the number of JOINED
\* records is at most the event's capacity, and the JOINED and WAITLIST
\* records together are as many as the distinct users holding a record.
C1_JoinedWithinCapacity ==
    /\ event.exists => JoinedCount <= event.max_participants
    /\ JoinedCount + WaitlistCount =
            Cardinality(UsersWithRecord(participants))

\* A leave has just completed on an event that is at capacity with users
\* still waiting.
C1_Witness ==
    /\ ret.op = "leave_event" /\ ret.ok
    /\ event.exists
    /\ JoinedCount = event.max_participants
    /\ WaitlistCount > 0

\* The waitlisted records a step turned into JOINED records.
PromotedBy(P, Q) ==
    {r \in WaitlistOf(P) : \E q \in Q : q.id = r.id /\ q.status = "joined"}

\* The JOINED records a step turned into WAITLIST records.
DemotedBy(P, Q) ==
    {r \in JoinedOf(P) : \E q \in Q : q.id = r.id /\ q.status = "waitlist"}

\* C2: when a JOINED user leaves and users are waiting, exactly one of them
\* is promoted, it is the one at the front of the waitlist (the lowest
\* position), its record ends JOINED with position 0, and it is the user
\* the call returns.
C2_LeavePromotesFront ==
    [][(/\ ret'.op = "leave_event" /\ ret'.ok
        /\ \E r \in JoinedOf(participants) : r.user_id \in ret'.user
        /\ WaitlistOf(participants) # {})
       => LET promoted == PromotedBy(participants, participants')
          IN  /\ Cardinality(promoted) = 1
              /\ \A r \in promoted :
                    /\ \A w \in WaitlistOf(participants) :
                            r.position <= w.position
                    /\ \E q \in participants' :
                            /\ q.id = r.id
                            /\ q.status = "joined" /\ q.position = 0
                    /\ ret'.promoted = {r.user_id}]_vars

\* C3: the event's persisted current_participants equals the number of
\* JOINED records of the event.
C3_CounterMatchesJoined ==
    event.exists => event.current_participants = JoinedCount

\* A capacity edit has just promoted or demoted somebody and the event
\* still has users on both lists.
C3_Witness ==
    /\ ret.op = "edit_event" /\ ret.ok
    /\ ret.promoted \cup ret.demoted # {}
    /\ JoinedCount > 0
    /\ WaitlistCount > 0

\* C4: the WAITLIST records carry exactly the positions 1..N, one each,
\* and every JOINED record has position 0.
C4_WaitlistContiguous ==
    /\ {r.position : r \in WaitlistOf(participants)} = 1..WaitlistCount
    /\ \A r \in JoinedOf(participants) : r.position = 0

\* A waitlisted user has just left and somebody is still waiting: a leave
\* that promoted nobody although the waitlist is not empty.
C4_Witness ==
    /\ ret.op = "leave_event" /\ ret.ok
    /\ ret.promoted = {}
    /\ WaitlistCount > 0

\* An earlier-joined waitlisted user never has a larger position than a
\* later-joined one.
WaitlistInJoinOrder(P) ==
    \A a, b \in WaitlistOf(P) :
        a.joined_at < b.joined_at => a.position <= b.position

\* C5 as stated: after every operation that resequenced the waitlist (a
\* leave, a capacity edit that promoted), the order of the waitlisted users
\* by position is their order by joined_at.
C5_JoinOrderAfterResequence ==
    [][(/\ ret'.ok
        /\ \/ ret'.op = "leave_event"
           \/ ret'.op = "edit_event" /\ ret'.promoted # {})
       => WaitlistInJoinOrder(participants')]_vars

\* C5 amended: every join, leave and capacity edit that demotes nobody
\* keeps the order by position equal to the order by joined_at; only a
\* demotion (which appends the demoted user behind later-joined waiters)
\* breaks the agreement.
C5_JoinOrderKeptWithoutDemotion ==
    [][(WaitlistInJoinOrder(participants) /\ ret'.demoted = {})
       => WaitlistInJoinOrder(participants')]_vars

\* A leave has just resequenced a waitlist that still holds two users or
\* more, in join order.
C5_Witness ==
    /\ ret.op = "leave_event" /\ ret.ok
    /\ WaitlistCount >= 2
    /\ WaitlistInJoinOrder(participants)

\* The record a record of P has become in Q.
After(r, Q) == CHOOSE q \in Q : q.id = r.id

C7_DecreaseDemotesLatest ==
    [][(/\ ret'.op = "edit_event" /\ ret'.ok
        /\ event.exists
        /\ event'.max_participants < JoinedCount)
       => LET excess == JoinedCount - event'.max_participants
              demoted == DemotedBy(participants, participants')
              kept == JoinedOf(participants) \ demoted
          IN  /\ Cardinality(demoted) = excess
              /\ \A d \in demoted, j \in kept : j.joined_at <= d.joined_at
              /\ \A j \in kept : j \in JoinedOf(participants')]_vars

\* A capacity edit has just demoted somebody and others stay JOINED.
C7_Witness ==
    /\ ret.op = "edit_event" /\ ret.ok
    /\ ret.demoted # {}
    /\ JoinedCount > 0

\* C8: join_event on a missing event, or on one whose status is CLOSED,
\* CANCELLED or COMPLETED, reports failure, creates no record and leaves
\* the event document as it was.
C8_JoinRefusedWhenNotOpen ==
    [][(/\ ret'.op = "join_event"
        /\ \/ ~event.exists
           \/ event.status \in {"closed", "cancelled", "completed"})
       => /\ ~ret'.ok
          /\ participants' = participants
          /\ event' = event]_vars

\* A join has just been refused on a CLOSED event to a user who holds no
\* record of it.
C8_Witness ==
    /\ ret.op = "join_event" /\ ~ret.ok
    /\ event.exists /\ event.status = "closed"
    /\ ret.user \cap UsersWithRecord(participants) = {}

\* C9: update_status turns ACTIVE at or over capacity into FULL and FULL
\* under capacity into ACTIVE, then turns ACTIVE or FULL into COMPLETED
\* when start_time < now whatever the occupancy; it leaves every other
\* status and every other field alone.
C9_UpdateStatusTable ==
    ret.op = "update_status" =>
        LET b == ret.before
            past == b.start_time < now
            over == b.current_participants >= b.max_participants
        IN  /\ (b.status = "active" /\ over /\ ~past)
                    => event.status = "full"
            /\ (b.status = "full" /\ ~over /\ ~past)
                    => event.status = "active"
            /\ (b.status = "active" /\ ~over /\ ~past)
                    => event.status = "active"
            /\ (b.status = "full" /\ over /\ ~past)
                    => event.status = "full"
            /\ (b.status \in {"active", "full"} /\ past)
                    => event.status = "completed"
            /\ (b.status \notin {"active", "full"})
                    => event.status = b.status
            /\ event = [b EXCEPT !.status = event.status]

\* update_status has just turned an ACTIVE event at capacity into FULL.
C9_Witness ==
    /\ ret.op = "update_status"
    /\ ret.before.status = "active"
    /\ ret.before.current_participants = ret.before.max_participants
    /\ event.status = "full"

\* C10: a reminder sweep over an event whose persisted reminder_sent is
\* true sends nothing and writes nothing.
C10_NoSecondReminder ==
    [][(/\ event.exists /\ event.reminder_sent
        /\ ret'.op = "check_reminders")
       => /\ ~ret'.ok
          /\ reminders' = reminders
          /\ event' = event]_vars

\* A sweep has just skipped an event inside its reminder window, with an
\* open status, because its reminder_sent is true.
C10_Witness ==
    /\ ret.op = "check_reminders" /\ ~ret.ok
    /\ event.exists /\ event.reminder_sent
    /\ event.status \in {"active", "full", "closed"}
    /\ now >= event.start_time - reminder_minutes
    /\ now < event.start_time

\* C11: when a JOINED user leaves an event that is FULL and at capacity,
\* with users waiting and its start still ahead, the leaver's record is
\* gone, the JOINED count and current_participants are at the capacity
\* again, the status is FULL and the waitlist is one shorter.
C11_LeaveAtCapacityRefills ==
    [][(/\ ret'.op = "leave_event" /\ ret'.ok
        /\ event.exists /\ event.status = "full"
        /\ JoinedCount = event.max_participants
        /\ WaitlistCount > 0
        /\ event.start_time > now
        /\ \E r \in JoinedOf(participants) : r.user_id \in ret'.user)
       => /\ ret'.user \cap UsersWithRecord(participants') = {}
          /\ Cardinality(JoinedOf(participants')) = event'.max_participants
          /\ event'.current_participants = event'.max_participants
          /\ event'.max_participants = event.max_participants
          /\ event'.status = "full"
          /\ Cardinality(WaitlistOf(participants')) = WaitlistCount - 1
          /\ \A q \in JoinedOf(participants') : q.position = 0]_vars

\* A leave has just promoted a waiting user into the seat it freed, on a
\* FULL event that has not started.
C11_Witness ==
    /\ ret.op = "leave_event" /\ ret.ok
    /\ ret.promoted # {}
    /\ event.exists /\ event.status = "full"
    /\ event.start_time > now
    /\ JoinedCount = event.max_participants

\* C12: a successful join creates one record for the caller: JOINED with
\* position 0 exactly when fewer JOINED records than max_participants
\* exist, and then current_participants grows by one and the status is
\* recomputed (COMPLETED when the start has passed, else FULL at capacity,
\* else ACTIVE); otherwise WAITLIST with position waitlist length + 1, and
\* then the event document is unchanged.
C12_JoinPlacesByCapacity ==
    [][(ret'.op = "join_event" /\ ret'.ok)
       => LET created == participants' \ participants
              count == event.current_participants + 1
          IN  /\ participants \subseteq participants'
              /\ Cardinality(created) = 1
              /\ \A r \in created :
                    /\ r.user_id \in ret'.user
                    /\ (r.status = "joined") <=>
                            (JoinedCount < event.max_participants)
                    /\ r.status = "joined" =>
                        /\ r.position = 0
                        /\ event'.current_participants = count
                        /\ event'.status =
                              IF event.start_time < now THEN "completed"
                              ELSE IF count >= event.max_participants
                                   THEN "full" ELSE "active"
                    /\ r.status # "joined" =>
                        /\ r.status = "waitlist"
                        /\ r.position = WaitlistCount + 1
                        /\ event' = event]_vars

\* A join has just landed on the waitlist behind somebody else.
C12_Witness ==
    /\ ret.op = "join_event" /\ ret.ok
    /\ \E r \in WaitlistOf(participants) :
            r.user_id \in ret.user /\ r.position = WaitlistCount
    /\ WaitlistCount >= 2

\* C13: a join by a user who already holds a record of the event, JOINED
\* or WAITLIST, reports failure and leaves every record and the event
\* document as they were.
C13_RejoinRefused ==
    [][(/\ ret'.op = "join_event"
        /\ ret'.user \cap UsersWithRecord(participants) # {})
       => /\ ~ret'.ok
          /\ participants' = participants
          /\ event' = event]_vars

\* A join has just been refused, on an open event, to a user who is on its
\* waitlist.
C13_Witness ==
    /\ ret.op = "join_event" /\ ~ret.ok
    /\ event.exists /\ event.status \in {"active", "full"}
    /\ \E r \in WaitlistOf(participants) : r.user_id \in ret.user

\* C14: a leave by a WAITLIST user deletes that user's record only,
\* renumbers the remaining waitlist 1..N-1 in its order, promotes nobody,
\* returns no promoted user and leaves the event document and every
\* JOINED record unchanged.
C14_WaitlistLeaveFrame ==
    [][(/\ ret'.op = "leave_event" /\ ret'.ok
        /\ \E r \in WaitlistOf(participants) : r.user_id \in ret'.user)
       => LET gone == {r \in participants : r.user_id \in ret'.user}
              left == WaitlistOf(participants) \ gone
          IN  /\ {q.id : q \in participants'} =
                    {r.id : r \in participants \ gone}
              /\ JoinedOf(participants') = JoinedOf(participants)
              /\ ret'.promoted = {}
              /\ event' = event
              /\ {q.position : q \in WaitlistOf(participants')} =
                    1..(WaitlistCount - 1)
              /\ \A a, b \in left :
                    a.position < b.position =>
                        After(a, participants').position <
                            After(b, participants').position]_vars

\* A waitlisted user has just left a FULL event whose seats are all taken
\* and whose waitlist is still not empty.
C14_Witness ==
    /\ ret.op = "leave_event" /\ ret.ok
    /\ ret.promoted = {}
    /\ event.exists /\ event.status = "full"
    /\ JoinedCount = event.max_participants
    /\ WaitlistCount >= 1

\* C15: update_status leaves the status of a CLOSED, CANCELLED or COMPLETED
\* event alone whatever its occupancy and start_time, and never changes
\* current_participants, max_participants or reminder_sent.
C15_UpdateStatusFrame ==
    ret.op = "update_status" =>
        /\ ret.before.status \in {"closed", "cancelled", "completed"}
                => event.status = ret.before.status
        /\ event.current_participants = ret.before.current_participants
        /\ event.max_participants = ret.before.max_participants
        /\ event.reminder_sent = ret.before.reminder_sent

\* update_status has just run on a CLOSED event at capacity whose start has
\* passed.
C15_Witness ==
    /\ ret.op = "update_status"
    /\ ret.before.status = "closed"
    /\ ret.before.start_time < now
    /\ ret.before.current_participants >= ret.before.max_participants
    /\ event.status = "closed"

\* The handlers and sweeps of the bot that run on an existing event and do
\* not delete it.
LifecycleOps ==
    {"join_event", "leave_event", "edit_event", "close_event",
     "check_reminders", "check_completed_events"}

\* C16 as stated: a CLOSED event is still CLOSED after every join, leave,
\* edit, close request, reminder sweep and completion sweep, also after its
\* start_time has passed.
C16_ClosedStaysClosed ==
    [][(/\ event.exists /\ event.status = "closed"
        /\ ret'.op \in LifecycleOps)
       => (event'.exists /\ event'.status = "closed")]_vars

\* C16 amended: a CLOSED event is still CLOSED after every join, leave,
\* edit, close request and reminder sweep, and after a completion sweep
\* that runs while start_time is not past; a completion sweep that runs
\* after start_time turns it into COMPLETED.
C16_ClosedUntilSweptAfterStart ==
    [][(/\ event.exists /\ event.status = "closed"
        /\ ret'.op \in LifecycleOps)
       => /\ event'.exists
          /\ event'.status =
                IF ret'.op = "check_completed_events"
                   /\ event.start_time < now
                THEN "completed" ELSE "closed"]_vars

\* A participant has just left a CLOSED event whose start has passed, and
\* the event is still CLOSED.
C16_Witness ==
    /\ ret.op = "leave_event" /\ ret.ok
    /\ event.exists /\ event.status = "closed"
    /\ event.start_time < now

\* C17: a COMPLETED or CANCELLED event keeps its status through every
\* join, leave, edit (capacity changes and a start_time moved ahead
\* included), close request and sweep.
C17_TerminalStatuses ==
    [][(/\ event.exists /\ event.status \in {"completed", "cancelled"}
        /\ ret'.op \in LifecycleOps)
       => (event'.exists /\ event'.status = event.status)]_vars

\* An edit has just raised the capacity of a COMPLETED event, promoted a
\* waiting user and moved its start ahead of the clock.
C17_Witness ==
    /\ ret.op = "edit_event" /\ ret.ok
    /\ ret.promoted # {}
    /\ event.exists /\ event.status = "completed"
    /\ event.start_time > now

\* C18: _send_reminder runs only in a reminder sweep that finds
\* reminder_sent false, the status ACTIVE, FULL or CLOSED and
\* start_time - reminder window <= now < start_time; a sweep that sends
\* nothing leaves the event document unwritten.
C18_ReminderOnlyInWindow ==
    [][/\ reminders' > reminders =>
            /\ ret'.op = "check_reminders"
            /\ event.exists
            /\ ~event.reminder_sent
            /\ event.status \in {"active", "full", "closed"}
            /\ event.start_time - reminder_minutes <= now
            /\ now < event.start_time
       /\ (ret'.op = "check_reminders" /\ reminders' = reminders) =>
            event' = event]_vars

\* A sweep has just sent the reminder of a CLOSED event at the first
\* instant of its window.
C18_Witness ==
    /\ ret.op = "check_reminders" /\ ret.ok
    /\ reminders = 1
    /\ event.exists /\ event.reminder_sent
    /\ event.status = "closed"
    /\ now = event.start_time - reminder_minutes

\* C19: _send_reminder runs at most once for an event, also when an
\* edit_event that fetched the event before a reminder sweep writes the
\* whole document after it.
C19_AtMostOneReminderAttempt == reminders <= 1

\* The event's start_time has passed and it is not CANCELLED.
PastStart ==
    /\ event.exists
    /\ event.status # "cancelled"
    /\ event.start_time < now

\* C20: with the completion sweep kept running, an event that is not
\* CANCELLED and whose start_time has passed ends up COMPLETED, nobody
\* having to touch it (unless it is deleted, cancelled from outside or
\* moved to a later start first); and a completion sweep leaves alone an
\* event that is COMPLETED or CANCELLED or whose start_time is not past.
C20_SweepCompletesPastEvents ==
    /\ PastStart ~> (~PastStart \/ event.status = "completed")
    /\ [][(/\ ret'.op = "check_completed_events"
            /\ \/ ~event.exists
               \/ event.status \in {"completed", "cancelled"}
               \/ ~(event.start_time < now))
           => event' = event]_vars

\* A completion sweep has just completed an event nobody ever joined.
C20_Witness ==
    /\ ret.op = "check_completed_events" /\ ret.ok
    /\ event.exists /\ event.status = "completed"
    /\ event.start_time < now
    /\ participants = {}

\* C21: an edit request on a CANCELLED or COMPLETED event leaves the event
\* document and the participant records as they were.
C21_NoEditWhenTerminal ==
    [][(/\ ret'.op = "edit_event"
        /\ event.exists
        /\ event.status \in {"cancelled", "completed"})
       => (event' = event /\ participants' = participants)]_vars

\* The users holding a record with the given status.
UsersOf(P, status) == {r.user_id : r \in {x \in P : x.status = status}}

\* C22: while the event is CLOSED no join_event or leave_event call changes
\* who is JOINED or who is on the waitlist.
C22_ClosedLocksParticipants ==
    [][(/\ event.exists /\ event.status = "closed"
        /\ ret'.op \in {"join_event", "leave_event"})
       => /\ UsersOf(participants', "joined") =
                UsersOf(participants, "joined")
          /\ UsersOf(participants', "waitlist") =
                UsersOf(participants, "waitlist")]_vars

\* C23: whenever delete_event has removed the event document, no
\* participant record of the event is left, also when the deletion of the
\* participants reported failure.
C23_DeleteCascades ==
    [][(/\ ret'.op = "delete_event"
        /\ event.exists /\ ~event'.exists)
       => participants' = {}]_vars

\* C24: a join that returns success with a JOINED record has the persisted
\* counter one higher and the status recomputed, and a successful leave of
\* a JOINED user has the persisted counter lowered by one (and raised again
\* by one for the user it promoted), also when the event write fails.
C24_SuccessMeansPersisted ==
    [][/\ (/\ ret'.op = "join_event" /\ ret'.ok
            /\ \E r \in participants' \ participants : r.status = "joined")
          => LET count == event.current_participants + 1
             IN  /\ event'.current_participants = count
                 /\ event'.status =
                       IF event.start_time < now THEN "completed"
                       ELSE IF count >= event.max_participants
                            THEN "full" ELSE "active"
       /\ (/\ ret'.op = "leave_event" /\ ret'.ok
            /\ event.exists /\ event.current_participants > 0
            /\ \E r \in JoinedOf(participants) : r.user_id \in ret'.user)
          => event'.current_participants =
                event.current_participants - 1
                    + Cardinality(ret'.promoted)]_vars

\* Whether a join_event of `user_id` comes to make the service call c.
JoinMakes(c, user_id) ==
    LET joinable == /\ event.exists
                    /\ event.status \notin
                            {"closed", "cancelled", "completed"}
        fresh == user_id \notin UsersWithRecord(participants)
    IN  CASE c = "get_event" -> TRUE
          [] c = "get_participant_by_user" -> joinable
          [] c = "get_participants" -> joinable /\ fresh
          [] c = "get_waitlist" ->
                joinable /\ fresh /\ JoinedCount >= event.max_participants
          [] c = "create_document" -> joinable /\ fresh
          [] OTHER -> FALSE

\* C25: a join_event during which a store call fails (the event read, the
\* query for the user's record, the query of the JOINED records, the
\* waitlist query or the create) reports failure and creates no record.
C25_JoinFailsOnStoreFailure ==
    [][(/\ ret'.op = "join_event"
        /\ \E c \in faults.calls, u \in ret'.user : JoinMakes(c, u))
       => (~ret'.ok /\ participants' = participants)]_vars

\* C26: with no capacity edit running, the JOINED records never outnumber
\* max_participants, also when the store calls of concurrent join_event
\* and leave_event calls interleave.
C26_CapacityUnderRace ==
    event.exists =>
        Cardinality(JoinedOf(participants)) <= event.max_participants

\* C27: no user ever holds two participant records of the event, also when
\* two join_event calls of the same user interleave.
C27_OneRecordPerUser ==
    \A r, q \in participants : r.user_id = q.user_id => r = q

\* C28: an edit_event that runs on its own and changes max_participants of
\* an ACTIVE or FULL event whose start lies ahead leaves at most the new
\* max_participants JOINED records, a stored current_participants equal to
\* their number, and the status FULL when they fill the new capacity and
\* ACTIVE when they do not.
C28_CapacityEditReconciles ==
    [][(/\ ret'.op = "edit_event"
        /\ event.exists
        /\ event.status \in {"active", "full"}
        /\ event'.max_participants # event.max_participants
        /\ event'.start_time > now)
       => LET joined == Cardinality(JoinedOf(participants'))
          IN  /\ joined <= event'.max_participants
              /\ event'.current_participants = joined
              /\ event'.status = IF joined >= event'.max_participants
                                 THEN "full" ELSE "active"]_vars

\* An edit that lowered the capacity has demoted a user and left the event
\* FULL.
C28_Witness ==
    /\ ret.op = "edit_event"
    /\ ret.ok
    /\ ret.demoted # {}
    /\ event.status = "full"
    /\ event.start_time > now
    /\ Cardinality(JoinedOf(participants)) = event.max_participants

\* C29: the users a capacity decrease demotes take the positions right
\* behind the users already waiting, one after the other, the most
\* recently joined of them first; the records of the users already waiting
\* are left as they were.
C29_DemotedAppendedInOrder ==
    [][(ret'.op = "edit_event" /\ ret'.demoted # {})
       => LET waiting == WaitlistOf(participants)
              demoted == DemotedBy(participants, participants')
              after(r) == CHOOSE q \in participants' : q.id = r.id
          IN  /\ {after(r).position : r \in demoted} =
                    (Cardinality(waiting) + 1) ..
                    (Cardinality(waiting) + Cardinality(demoted))
              /\ \A a, b \in demoted :
                    a.joined_at > b.joined_at =>
                        after(a).position < after(b).position
              /\ waiting \subseteq participants']_vars

\* A capacity edit has demoted two users behind a user who was waiting.
C29_Witness ==
    /\ ret.op = "edit_event"
    /\ Cardinality(ret.demoted) >= 2
    /\ \E w \in WaitlistOf(participants) :
         /\ w.user_id \notin ret.demoted
         /\ w.position = 1
    /\ \E a, b \in WaitlistOf(participants) :
         /\ {a.user_id, b.user_id} \subseteq ret.demoted
         /\ a.position = 2
         /\ b.position = 3

\* The users the loops of _handle_capacity_change take up when the capacity
\* goes from that of `e` to new_max over the records P: every possible
\* selection.
Selected(P, e, new_max) ==
    LET joined == Cardinality(JoinedOf(P))
        waiting == Cardinality(WaitlistOf(P))
        to_promote == IF new_max - joined < waiting
                      THEN new_max - joined ELSE waiting
    IN  IF new_max > e.max_participants
        THEN IF to_promote > 0
             THEN {Range(UserIds(wl, to_promote)) :
                      wl \in SortByPosition(WaitlistOf(P))}
             ELSE {{}}
        ELSE IF joined > new_max
        THEN {{r.user_id : r \in R} :
                R \in {X \in SUBSET JoinedOf(P) :
                    /\ Cardinality(X) = joined - new_max
                    /\ \A x \in X, y \in JoinedOf(P) \ X :
                          x.joined_at >= y.joined_at}}
        ELSE {{}}

\* C30: in a capacity edit every selected user whose promotion or demotion
\* does not fail is promoted or demoted, whichever of the calls before it
\* failed, and the stored current_participants is the number of JOINED
\* records present afterwards.
C30_ReconcileBestEffort ==
    [][(/\ ret'.op = "edit_event"
        /\ event'.max_participants # event.max_participants)
       => /\ \E sel \in Selected(participants, event,
                                 event'.max_participants) :
                ret'.promoted \cup ret'.demoted = sel \ faults.users
          /\ event'.current_participants =
                Cardinality(JoinedOf(participants'))]_vars

\* A capacity increase has promoted a user although the promotion of the
\* user at the head of the waitlist failed: that user still waits at
\* position 1 and a seat is free.
C30_Witness ==
    /\ ret.op = "edit_event"
    /\ ret.promoted # {}
    /\ Cardinality(JoinedOf(participants)) < event.max_participants
    /\ \E w \in WaitlistOf(participants) :
         /\ w.user_id \in faults.users
         /\ w.position = 1
         /\ event.current_participants =
                Cardinality(JoinedOf(participants))

\* C31: a reminder attempt tries the delivery to every JOINED user and,
\* when there is one, the channel message, whichever of the deliveries
\* raise, and leaves reminder_sent stored as true.
C31_ReminderBestEffort ==
    [][(ret'.op = "check_reminders" /\ ret'.ok)
       => /\ ret'.attempted = UsersOf(participants, "joined")
          /\ ret'.sent = UsersOf(participants, "joined") \ faults.dms
          /\ ret'.channel_attempted = (JoinedOf(participants) # {})
          /\ event'.reminder_sent]_vars

\* A reminder attempt has reached a user who joined after a user whose
\* delivery raised, the channel message raised too, and reminder_sent is
\* stored.
C31_Witness ==
    /\ ret.op = "check_reminders"
    /\ ret.ok
    /\ ret.channel_attempted
    /\ ~ret.channel_sent
    /\ event.reminder_sent
    /\ \E a, b \in JoinedOf(participants) :
         /\ a.joined_at < b.joined_at
         /\ a.user_id \in ret.attempted \ ret.sent
         /\ b.user_id \in ret.sent

\* C32: promote_from_waitlist for a user without a WAITLIST record and
\* demote_to_waitlist for a user without a JOINED record report failure and
\* leave every participant record and the event document as they were.
C32_WrongStatusRefused ==
    [][(\/ /\ ret'.op = "promote_from_waitlist"
            /\ ret'.user \cap UsersOf(participants, "waitlist") = {}
        \/ /\ ret'.op = "demote_to_waitlist"
            /\ ret'.user \cap UsersOf(participants, "joined") = {})
       => /\ ~ret'.ok
          /\ participants' = participants
          /\ event' = event]_vars

\* promote_from_waitlist has been refused for a JOINED user while another
\* user waits.
C32_Witness ==
    /\ ret.op = "promote_from_waitlist"
    /\ ~ret.ok
    /\ ret.user \subseteq UsersOf(participants, "joined")
    /\ ret.user # {}
    /\ WaitlistOf(participants) # {}

\* C33: _update_waitlist_positions gives the waiting users the positions
\* 1..N in the order of their previous positions, writes exactly the
\* records whose position changes (none when the positions are 1..N
\* already, so a second run writes nothing), and touches neither a JOINED
\* record nor the event document.
C33_ResequenceMinimal ==
    [][ret'.op = "_update_waitlist_positions"
       => LET waiting == WaitlistOf(participants)
              after(r) == CHOOSE q \in participants' : q.id = r.id
          IN  /\ {r.id : r \in participants'} = {r.id : r \in participants}
              /\ {after(r).position : r \in waiting} =
                    1..Cardinality(waiting)
              /\ \A a, b \in waiting :
                    a.position < b.position =>
                        after(a).position < after(b).position
              /\ ret'.written =
                    {r.id : r \in {x \in waiting :
                                      after(x).position # x.position}}
              /\ ({r.position : r \in waiting} = 1..Cardinality(waiting)
                    => ret'.written = {} /\ participants' = participants)
              /\ (ret.op = "_update_waitlist_positions"
                    => ret'.written = {})
              /\ \A r \in participants \ waiting : r \in participants'
              /\ \A r \in waiting :
                    after(r) = [r EXCEPT !.position = after(r).position]
              /\ event' = event]_vars

\* A resequencing has closed a gap: it wrote a record and left another
\* waiting record, already at position 1, unwritten beside a JOINED record.
C33_Witness ==
    /\ ret.op = "_update_waitlist_positions"
    /\ ret.written # {}
    /\ \E r \in WaitlistOf(participants) :
         r.position = 1 /\ r.id \notin ret.written
    /\ JoinedOf(participants) # {}

\* C34: with no edit_event in flight the stored current_participants is the
\* number of JOINED records, also when joins ran while the edit modal was
\* open.
C34_CounterAfterStaleEdit ==
    (event.exists /\ ~editing.exists) =>
        event.current_participants = Cardinality(JoinedOf(participants))

\* C35: the step after the completion sweep has stored COMPLETED leaves the
\* stored status COMPLETED, also when it is the write of an edit_event that
\* read the event before the sweep.
C35_CompletedSurvivesStaleWrite ==
    [][(/\ ret.op = "check_completed_events"
        /\ ret.ok
        /\ event.exists
        /\ event.status = "completed"
        /\ event'.exists)
       => event'.status = "completed"]_vars

\* C36: when no join_event call is in flight the waiting users hold the
\* positions 1..N, one each, also after two joins on the full event ran
\* store call by store call.
C36_WaitlistPositionsUnderRace ==
    (\A c \in Calls : joining[c].pc = "idle") =>
        /\ {r.position : r \in WaitlistOf(participants)} =
              1..Cardinality(WaitlistOf(participants))
        /\ \A r, q \in WaitlistOf(participants) :
              r.position = q.position => r = q

\* C37: after joins, leaves and capacity edits that ran one after the other
\* with no store failure, a user waits only while every seat is taken.
C37_NobodyWaitsForFreeSeat ==
    (event.exists /\ WaitlistOf(participants) # {}) =>
        Cardinality(JoinedOf(participants)) = event.max_participants

\* A leave has promoted the head of the waitlist and left another user
\* waiting with every seat taken.
C37_Witness ==
    /\ ret.op = "leave_event"
    /\ ret.ok
    /\ ret.promoted # {}
    /\ WaitlistOf(participants) # {}
    /\ Cardinality(JoinedOf(participants)) = event.max_participants

\* C38: after operations that ran one after the other the stored status
\* agrees with the stored counter: ACTIVE only below max_participants, FULL
\* only at or above it, and the counter is never negative.
C38_StatusAgreesWithCounter ==
    event.exists =>
        /\ event.status = "active" =>
              event.current_participants < event.max_participants
        /\ event.status = "full" =>
              event.current_participants >= event.max_participants
        /\ event.current_participants >= 0

\* A leave has turned the event ACTIVE again: nobody waited, so a seat is
\* free.
C38_Witness ==
    /\ ret.op = "leave_event"
    /\ ret.ok
    /\ ret.promoted = {}
    /\ event.exists
    /\ event.status = "active"
    /\ event.current_participants = event.max_participants - 1
    /\ Cardinality(JoinedOf(participants)) = event.current_participants

\* C39: join_event on an ACTIVE event whose start_time has passed, with a
\* free seat and for a user without a record, succeeds, creates a JOINED
\* record, and its counter update stores the status COMPLETED.
C39_JoinAfterStartCompletes ==
    [][(/\ ret'.op = "join_event"
        /\ event.exists
        /\ event.status = "active"
        /\ event.start_time < now
        /\ Cardinality(JoinedOf(participants)) < event.max_participants
        /\ ret'.user \cap UsersWithRecord(participants) = {})
       => /\ ret'.ok
          /\ \E r \in participants' \ participants :
                /\ r.user_id \in ret'.user
                /\ r.status = "joined"
          /\ event'.status = "completed"
          /\ event'.current_participants = event.current_participants + 1]_vars

\* A join has succeeded after the start of the event and the event is
\* COMPLETED.
C39_Witness ==
    /\ ret.op = "join_event"
    /\ ret.ok
    /\ event.exists
    /\ event.status = "completed"
    /\ event.start_time < now
    /\ \E r \in JoinedOf(participants) :
         r.user_id \in ret.user /\ r.joined_at > event.start_time
====
